---------------------------- MODULE Spec2Model ----------------------------
(* A state-machine model of src/Detector.py: the Detector constructor      *)
(* (profile selection and predictor construction), the interactive video   *)
(* job onVideo and the validation job validateUser.  The external          *)
(* collaborators (cv2.VideoCapture, the detectron2 predictor, the file     *)
(* system) are modelled by what the code observes of them: whether the     *)
(* capture opens, the frames it yields, the class indexes the predictor    *)
(* returns for a frame (or the exception it raises), the key codes         *)
(* cv2.waitKey returns.                                                    *)
EXTENDS Integers, Sequences, FiniteSets

(***************************************************************************)
(* Bounds of the model.                                                    *)
(***************************************************************************)
\* longest video, in frames
MaxFrames == 2
\* most detections the predictor returns for one frame
MaxDets == 2

(***************************************************************************)
(* Program constants.                                                      *)
(***************************************************************************)
\* ord("q")
OrdQ == 113
\* the mask 0xFF applied to cv2.waitKey's value, as the modulus 0xFF + 1
KeyMask == 256

\* the tokens the constructor's if/elif chain recognises
ModelTypes == {"OD", "IS", "KP", "LVIS", "PS"}

\* the tokens a caller may pass: the recognised ones and one that is not
Tokens == ModelTypes \cup {"XX"}

\* the model-zoo configuration the constructor merges for a token; a token
\* no branch matches leaves the configuration get_cfg() returned
ConfigFor(token) ==
    CASE token = "OD"   -> "COCO-Detection/faster_rcnn_R_101_FPN_3x.yaml"
      [] token = "IS"   -> "COCO-InstanceSegmentation/mask_rcnn_R_50_FPN_3x.yaml"
      [] token = "KP"   -> "COCO-Keypoints/keypoint_rcnn_R_50_FPN_3x.yaml"
      [] token = "LVIS" -> "LVISv0.5-InstanceSegmentation/mask_rcnn_X_101_32x8d_FPN_1x.yaml"
      [] token = "PS"   -> "COCO-PanopticSegmentation/panoptic_fpn_R_101_3x.yaml"
      [] OTHER          -> "get_cfg-defaults"

\* metadata.thing_classes: the class vocabulary, here its first two COCO
\* entries, each label a sequence of characters
thing_classes ==
    << <<"p","e","r","s","o","n">>, <<"b","i","c","y","c","l","e">> >>

\* the literal "person"
PersonLiteral == <<"p","e","r","s","o","n">>

\* Python's `sub in s` on strings: s holds sub as a contiguous substring
Contains(sub, s) ==
    \E i \in 0..(Len(s) - Len(sub)) : SubSeq(s, i + 1, i + Len(sub)) = sub

\* instances.pred_classes of one frame: class indexes (0-based, as in Python)
ClassIndexes == 0..(Len(thing_classes) - 1)

DetectionLists == UNION {[1..n -> ClassIndexes] : n \in 0..MaxDets}

\* a frame: the class indexes the predictor returns for it, or a malformed
\* frame on which the predictor raises
Frames ==
    {[classes |-> d, malformed |-> FALSE] : d \in DetectionLists}
        \cup {[classes |-> <<>>, malformed |-> TRUE]}

Videos == UNION {[1..n -> Frames] : n \in 0..MaxFrames}

\* the values cv2.waitKey(1) returns: no key, 'q', 'a'
RawKeys == {-1, 113, 97}

VARIABLES
    pc,              \* position of the program
    model_type,      \* self.model_type
    cfgFile,         \* the configuration merged into self.cfg
    predictorBuilds, \* number of DefaultPredictor constructions
    video,           \* the frames of the file at videoPath
    openable,        \* whether cv2.VideoCapture can open videoPath
    dirExists,       \* whether the output directory exists
    dirCreated,      \* whether this call created the output directory
    job,             \* the job that was started
    capState,        \* the capture object: none, open, failed, released
    pos,             \* frames the capture has yielded so far
    readCalls,       \* number of cap.read() calls
    frame_count,     \* validateUser's frame_count
    person_detected, \* validateUser's person_detected
    inferred,        \* frame indexes passed to self.predictor, in order
    displayed,       \* frame indexes shown by cv2.imshow, in order
    files,           \* frame indexes n of the detection_frame_n.jpg written
    writes,          \* number of cv2.imwrite calls
    qFrame,          \* frame during which waitKey returned 'q' (0: never)
    result           \* the job's return value

vars == <<pc, model_type, cfgFile, predictorBuilds, video, openable,
          dirExists, dirCreated, job, capState, pos, readCalls, frame_count,
          person_detected, inferred, displayed, files, writes, qFrame,
          result>>

detectorVars == <<model_type, cfgFile, predictorBuilds>>
envVars == <<video, openable>>
validateVars == <<frame_count, person_detected, files, writes>>

Init ==
    /\ pc = "new"
    /\ model_type = "unset"
    /\ cfgFile = "unset"
    /\ predictorBuilds = 0
    /\ openable \in BOOLEAN
    /\ video \in Videos
    /\ (~openable => video = <<>>)
    /\ dirExists \in BOOLEAN
    /\ dirCreated = FALSE
    /\ job = "none"
    /\ capState = "none"
    /\ pos = 0
    /\ readCalls = 0
    /\ frame_count = 0
    /\ person_detected = FALSE
    /\ inferred = <<>>
    /\ displayed = <<>>
    /\ files = {}
    /\ writes = 0
    /\ qFrame = 0
    /\ result = "pending"

(***************************************************************************)
(* Detector.__init__                                                       *)
(***************************************************************************)
DetectorInit(token) ==
    /\ pc = "new"
    /\ model_type' = token
    /\ cfgFile' = ConfigFor(token)
    /\ predictorBuilds' = predictorBuilds + 1
    /\ pc' = "idle"
    /\ UNCHANGED <<envVars, dirExists, dirCreated, job, capState, pos,
                   readCalls, validateVars, inferred, displayed, qFrame,
                   result>>

(***************************************************************************)
(* cv2.VideoCapture as the code uses it                                    *)
(***************************************************************************)
\* cap.read(): whether a frame is left to yield
ReadSuccess == capState = "open" /\ pos < Len(video)

\* the capture's position after cap.read()
PosAfterRead == IF ReadSuccess THEN pos + 1 ELSE pos

(***************************************************************************)
(* Detector.onVideo                                                        *)
(***************************************************************************)
\* key == ord("q")
IsQuit_Upper(key) == key = 81

IsQuit(key) == key = OrdQ

\* open the capture; on failure print and return, else read the first frame
OnVideoOpen ==
    /\ pc = "idle"
    /\ job' = "onVideo"
    /\ IF ~openable
         THEN /\ capState' = "failed"
              /\ pc' = "done"
              /\ result' = "None"
              /\ UNCHANGED <<pos, readCalls>>
         ELSE /\ capState' = "open"
              /\ readCalls' = readCalls + 1
              /\ pos' = IF pos < Len(video) THEN pos + 1 ELSE pos
              /\ pc' = IF pos < Len(video) THEN "o_predict" ELSE "done"
              /\ result' = IF pos < Len(video) THEN result ELSE "None"
    /\ UNCHANGED <<detectorVars, envVars, dirExists, dirCreated,
                   validateVars, inferred, displayed, qFrame>>

\* the loop body up to imshow: one predictor call in either branch, then the
\* rendering is displayed; a malformed frame makes the predictor raise
OnVideoPredict ==
    /\ pc = "o_predict"
    /\ IF video[pos].malformed
         THEN /\ pc' = "raised"
              /\ UNCHANGED <<inferred, displayed>>
         ELSE /\ inferred' = Append(inferred, pos)
              /\ displayed' = Append(displayed, pos)
              /\ pc' = "o_key"
    /\ UNCHANGED <<detectorVars, envVars, dirExists, dirCreated, job,
                   capState, pos, readCalls, validateVars, qFrame, result>>

\* key = cv2.waitKey(1) & 0xFF; break on 'q'
OnVideoKey(raw) ==
    /\ pc = "o_key"
    /\ qFrame' = IF raw = OrdQ THEN pos ELSE qFrame
    /\ IF IsQuit(raw % KeyMask)
         THEN /\ pc' = "done"
              /\ result' = "None"
         ELSE /\ pc' = "o_read"
              /\ UNCHANGED result
    /\ UNCHANGED <<detectorVars, envVars, dirExists, dirCreated, job,
                   capState, pos, readCalls, validateVars, inferred,
                   displayed>>

\* read the next frame and test the while condition
OnVideoRead ==
    /\ pc = "o_read"
    /\ readCalls' = readCalls + 1
    /\ pos' = PosAfterRead
    /\ pc' = IF ReadSuccess THEN "o_predict" ELSE "done"
    /\ result' = IF ReadSuccess THEN result ELSE "None"
    /\ UNCHANGED <<detectorVars, envVars, dirExists, dirCreated, job,
                   capState, validateVars, inferred, displayed, qFrame>>

(***************************************************************************)
(* Detector.validateUser                                                   *)
(***************************************************************************)
\* where control goes after the isOpened() check
AfterOpenPc_NoReturn(isOpened) == "v_read"

AfterOpenPc(isOpened) == IF isOpened THEN "v_read" ELSE "done"

\* frame_count after one cap.read(): incremented only past the success check
CountAfterRead_Early(success, n) == n + 1

CountAfterRead(success, n) == IF success THEN n + 1 ELSE n

\* whether the loop body runs the predictor for this profile
UsesPredictor_Always(mt) == TRUE

UsesPredictor(mt) == mt = "PS"

\* the for loop over the frame's detections, from index idx on, without the
\* break: every person detection saves the frame
RECURSIVE ScanDetections_NoBreak(_, _)
ScanDetections_NoBreak(classes, idx) ==
    IF idx > Len(classes)
      THEN [found |-> FALSE, saves |-> 0]
      ELSE LET rest == ScanDetections_NoBreak(classes, idx + 1)
           IN IF Contains(PersonLiteral, thing_classes[classes[idx] + 1])
                THEN [found |-> TRUE, saves |-> rest.saves + 1]
                ELSE rest

\* the for loop over the frame's detections, from index idx on: the first
\* detection whose class name contains "person" saves the frame and breaks
RECURSIVE ScanDetections(_, _)
ScanDetections(classes, idx) ==
    IF idx > Len(classes)
      THEN [found |-> FALSE, saves |-> 0]
      ELSE IF Contains(PersonLiteral, thing_classes[classes[idx] + 1])
             THEN [found |-> TRUE, saves |-> 1]
             ELSE ScanDetections(classes, idx + 1)

\* where control goes after the for loop: its break leaves the for loop
\* only, so the while loop reads the next frame
AfterScanPc_Return(found) == IF found THEN "v_release" ELSE "v_read"

AfterScanPc(found) == "v_read"

\* makedirs, open the capture; on failure print diagnostics and return False
ValidateOpen ==
    /\ pc = "idle"
    /\ job' = "validateUser"
    /\ dirExists' = TRUE
    /\ dirCreated' = ~dirExists
    /\ capState' = IF openable THEN "open" ELSE "failed"
    /\ pc' = AfterOpenPc(openable)
    /\ result' = IF AfterOpenPc(openable) = "done" THEN "False" ELSE result
    /\ frame_count' = 0
    /\ person_detected' = FALSE
    /\ UNCHANGED <<detectorVars, envVars, pos, readCalls, files, writes,
                   inferred, displayed, qFrame>>

\* success, image = cap.read(); break at end of stream, else count the frame
\* and dispatch on the profile
ValidateRead ==
    /\ pc = "v_read"
    /\ readCalls' = readCalls + 1
    /\ pos' = PosAfterRead
    /\ frame_count' = CountAfterRead(ReadSuccess, frame_count)
    /\ pc' = IF ~ReadSuccess THEN "v_release"
             ELSE IF UsesPredictor(model_type) THEN "v_predict"
             ELSE "v_read"
    /\ UNCHANGED <<detectorVars, envVars, dirExists, dirCreated, job,
                   capState, person_detected, files, writes, inferred,
                   displayed, qFrame, result>>

\* the PS branch: one predictor call, then the scan of its detections
ValidatePredict ==
    /\ pc = "v_predict"
    /\ IF video[pos].malformed
         THEN /\ pc' = "raised"
              /\ UNCHANGED <<inferred, person_detected, files, writes>>
         ELSE LET scan == ScanDetections(video[pos].classes, 1)
              IN /\ inferred' = Append(inferred, pos)
                 /\ person_detected' = (person_detected \/ scan.found)
                 /\ files' = IF scan.found
                               THEN files \cup {frame_count} ELSE files
                 /\ writes' = writes + scan.saves
                 /\ pc' = AfterScanPc(scan.found)
    /\ UNCHANGED <<detectorVars, envVars, dirExists, dirCreated, job,
                   capState, pos, readCalls, frame_count, displayed, qFrame,
                   result>>

\* cap.release() and the verdict
ValidateRelease ==
    /\ pc = "v_release"
    /\ capState' = "released"
    /\ result' = IF person_detected THEN "True" ELSE "False"
    /\ pc' = "done"
    /\ UNCHANGED <<detectorVars, envVars, dirExists, dirCreated, job, pos,
                   readCalls, validateVars, inferred, displayed, qFrame>>

Next ==
    \/ \E token \in Tokens : DetectorInit(token)
    \/ OnVideoOpen
    \/ OnVideoPredict
    \/ \E raw \in RawKeys : OnVideoKey(raw)
    \/ OnVideoRead
    \/ ValidateOpen
    \/ ValidateRead
    \/ ValidatePredict
    \/ ValidateRelease

Spec == Init /\ [][Next]_vars

\* the pipeline is single-threaded and synchronous: a step that can be taken
\* is taken
LiveSpec == Init /\ [][Next]_vars /\ WF_vars(Next)

(***************************************************************************)
(* Vocabulary of the properties                                            *)
(***************************************************************************)
\* <<1, 2, ..., n>>
Iota(n) == [i \in 1..n |-> i]

\* the predictor returns for this frame a detection whose label contains
\* "person"
HasPerson(frame) ==
    /\ ~frame.malformed
    /\ \E i \in 1..Len(frame.classes) :
          Contains(PersonLiteral, thing_classes[frame.classes[i] + 1])

\* the frames of the video that hold a person
PersonFrames == {i \in 1..Len(video) : HasPerson(video[i])}

\* the frames the predictor was run on and reported a person for
DetectedFrames == {i \in 1..Len(inferred) : HasPerson(video[inferred[i]])}

Least(S) == CHOOSE x \in S : \A y \in S : x <= y

\* validateUser opened the video and returned
ValidateReturned ==
    job = "validateUser" /\ pc = "done" /\ capState = "released"

\* the job ended, by a return or by an exception
Terminated == pc \in {"done", "raised"}

(***************************************************************************)
(* C1                                                                      *)
(***************************************************************************)
\* C1 (as stated): in validateUser, once the predictor has reported a person
\* for a frame, no later frame is read, and when the job returns frame_count
\* is the 1-based index of the first such frame.
C1_StopsAtFirstPerson ==
    (job = "validateUser" /\ DetectedFrames # {}) =>
        /\ pos <= Least(DetectedFrames)
        /\ (pc = "done" => frame_count = Least(DetectedFrames))

\* C1 (amended): in validateUser a person detection does not stop the scan:
\* whenever the job returns after opening the video, every frame has been
\* read up to end of stream and frame_count is the number of frames of the
\* video.
C1_ScansWholeVideo ==
    ValidateReturned =>
        /\ frame_count = Len(video)
        /\ pos = Len(video)
        /\ readCalls = Len(video) + 1

\* a returned PS job whose first frame held a person and which went on to
\* the second frame
C1_Witness ==
    /\ ValidateReturned
    /\ model_type = "PS"
    /\ 1 \in DetectedFrames
    /\ frame_count = 2

(***************************************************************************)
(* C2                                                                      *)
(***************************************************************************)
\* C2 (as stated): one validateUser job writes at most one evidence JPEG in
\* total: exactly one, named by the first triggering frame, when it returns
\* True, and none when it returns False.
C2_AtMostOneEvidence ==
    job = "validateUser" =>
        /\ writes <= 1
        /\ Cardinality(files) <= 1
        /\ (result = "True" => writes = 1 /\ files = {Least(DetectedFrames)})
        /\ (result = "False" => writes = 0 /\ files = {})

\* C2 (amended): one validateUser job writes at most one evidence JPEG per
\* scanned frame: exactly one for every frame the predictor reported a
\* person for, named by that frame's index, however many persons the frame
\* holds; at least one when it returns True and none when it returns False.
C2_OneEvidencePerPersonFrame ==
    job = "validateUser" =>
        /\ files = {inferred[i] : i \in DetectedFrames}
        /\ writes = Cardinality(files)
        /\ (result = "True" => files # {})
        /\ (result = "False" => files = {})

\* a job that returned True with two evidence files, one of them for a frame
\* holding two persons
C2_Witness ==
    /\ ValidateReturned
    /\ result = "True"
    /\ Cardinality(files) = 2
    /\ \E i \in files : video[i].classes = <<0, 0>>

(***************************************************************************)
(* C3                                                                      *)
(***************************************************************************)
\* C3: for every profile, validateUser on a video that opens returns True if
\* and only if some frame of the video holds a detection whose label
\* contains "person".
C3_TrueIffPersonInVideo ==
    ValidateReturned => (result = "True" <=> PersonFrames # {})

(***************************************************************************)
(* C4                                                                      *)
(***************************************************************************)
\* C4: when a video job has ended, by a return or by an exception, the
\* capture it opened has been released.
C4_SourceReleased ==
    (Terminated /\ capState # "failed") => capState = "released"

(***************************************************************************)
(* C5                                                                      *)
(***************************************************************************)
\* C5 (as stated): when the video cannot be opened, validateUser fails
\* without reading a frame or running the predictor, and the call has
\* created nothing on the file system.
C5_NothingCreatedOnOpenFailure ==
    (job = "validateUser" /\ capState = "failed") =>
        /\ pc = "done" /\ result = "False"
        /\ readCalls = 0 /\ inferred = <<>>
        /\ files = {} /\ writes = 0
        /\ ~dirCreated

\* C5 (amended): when the video cannot be opened, validateUser returns False
\* without reading a frame or running the predictor and writes no evidence
\* file; the output directory, made before the open check, exists afterwards
\* (created by the call when it was absent).
C5_OpenFailureOnlyMakesDir ==
    (job = "validateUser" /\ capState = "failed") =>
        /\ pc = "done" /\ result = "False"
        /\ readCalls = 0 /\ inferred = <<>>
        /\ files = {} /\ writes = 0
        /\ dirExists

\* a failed open that left a newly created output directory behind
C5_Witness ==
    /\ job = "validateUser"
    /\ capState = "failed"
    /\ pc = "done"
    /\ dirCreated

(***************************************************************************)
(* C6                                                                      *)
(***************************************************************************)
\* C6: constructing a Detector with an unrecognised token ends in a
\* configuration error and builds no predictor.
C6_UnknownTokenRejected ==
    (model_type \notin ModelTypes \cup {"unset"}) =>
        /\ predictorBuilds = 0
        /\ pc = "config_error"

(***************************************************************************)
(* C7                                                                      *)
(***************************************************************************)
\* C7: for a video that opens and yields no frame, validateUser runs no loop
\* iteration: frame_count stays 0, the predictor is never run, no evidence is
\* written, and the job returns False after its one failed read.
C7_EmptyVideo ==
    (job = "validateUser" /\ capState # "failed" /\ Len(video) = 0) =>
        /\ frame_count = 0
        /\ inferred = <<>>
        /\ files = {} /\ writes = 0
        /\ pc \in {"v_read", "v_release", "done"}
        /\ (pc = "done" => result = "False" /\ readCalls = 1)

\* a job on an empty video that opened, after it returned
C7_Witness ==
    /\ ValidateReturned
    /\ openable
    /\ Len(video) = 0
    /\ readCalls = 1

(***************************************************************************)
(* C8                                                                      *)
(***************************************************************************)
\* C8: onVideo always terminates; once 'q' is pressed the job has stopped at
\* that frame, nothing later being read, inferred or displayed; and a job
\* that returns without 'q' has displayed every frame in order and stopped
\* at the first read reporting end of stream.
C8_OnVideoTerminates ==
    /\ [](job = "onVideo" => <>Terminated)
    /\ []((job = "onVideo" /\ qFrame # 0) =>
            /\ pc = "done"
            /\ pos = qFrame
            /\ inferred = Iota(qFrame)
            /\ displayed = Iota(qFrame)
            /\ readCalls = qFrame)
    /\ []((job = "onVideo" /\ pc = "done" /\ capState = "open" /\ qFrame = 0) =>
            /\ pos = Len(video)
            /\ inferred = Iota(Len(video))
            /\ displayed = Iota(Len(video))
            /\ readCalls = Len(video) + 1)

\* a job stopped by 'q' during the first of two frames
C8_Witness ==
    /\ job = "onVideo"
    /\ pc = "done"
    /\ qFrame = 1
    /\ Len(video) = 2
    /\ displayed = <<1>>

(***************************************************************************)
(* C9                                                                      *)
(***************************************************************************)
\* C9: in both frame loops and for every profile, whenever the loop is about
\* to read (or has ended normally), every frame read so far has been passed
\* to the predictor exactly once, in order, and the predictor was built once.
C9_EachFrameInferredOnce ==
    (job # "none" /\ pc \in {"o_key", "o_read", "v_read", "v_release", "done"}) =>
        /\ inferred = Iota(pos)
        /\ predictorBuilds = 1

=============================================================================
